---- MODULE Spec2Model ----
(***************************************************************************)
(* caddy-gitea: the content-resolution engine of the gitea pages plugin.   *)
(* Client.Open (pkg/gitea/gitea.go) and Middleware.ServeHTTP (gitea.go),   *)
(* with the process-global viper store that readConfig writes and          *)
(* validRefs reads.                                                        *)
(*                                                                         *)
(* Byte strings are sequences of string tokens.  A remote repository is a  *)
(* record of what the Gitea API answers for it.                            *)
(***************************************************************************)
EXTENDS Integers, Sequences, FiniteSets, TLC

VARIABLES
    domain,     \* Middleware.Domain, set once when the Caddyfile is read
    viper,      \* the global viper instance: its config map (which call created it,
                \* for which repository) and the value stored under "allowedrefs"
    req,        \* per serving goroutine: the locals of ServeHTTP / Open
    fatal,      \* the Go runtime stopped the process ("concurrent map read and map write")
    fn          \* harness applying the pure functions to inputs drawn from bounded sets

vars == <<domain, viper, req, fatal, fn>>

----------------------------------------------------------------------------
(* AllowedBranches, an iota enumeration *)

AllowedBranchesNone == 0
AllowedBranchesLimited == 1
AllowedBranchesAll == 2

StatusOK == 200
StatusNotFound == 404

----------------------------------------------------------------------------
(* Bounds of the pure-function harness *)

MaxTopics == 3      \* topics of a repository, at most
MaxAllowedRefs == 2 \* entries of an allowedrefs list, at most
MaxLabels == 3      \* labels of a request host before the domain, at most
MaxSegs == 3        \* segments of a request path, at most

----------------------------------------------------------------------------
(* NewClient: empty reserved names take their defaults *)

NewClient(serverURL, token, giteapages, giteapagesAllowAll) ==
    [ serverURL          |-> serverURL,
      token              |-> token,
      giteapages         |-> IF giteapages = "" THEN "gitea-pages" ELSE giteapages,
      giteapagesAllowAll |-> IF giteapagesAllowAll = "" THEN "gitea-pages-allowall"
                             ELSE giteapagesAllowAll ]

\* Middleware.Provision with no gitea_pages / gitea_pages_allowall directive
c == NewClient("https://git.example.com", "t0ken", "", "")

----------------------------------------------------------------------------
(* Error values returned by Open *)

ErrNil == "nil"
ErrNotExist == "fs.ErrNotExist"                \* fs.ErrNotExist
ErrUnexpectedStatus == "unexpected status code" \* fmt.Errorf in getRawFileOrLFS
ErrTransport == "transport"                     \* http.DefaultClient.Do failed
ErrParse == "parse"                             \* viper.ReadConfig / front matter

\* the spec's error taxonomy (section 7)
ErrorKind(err) ==
    CASE err = ErrNil -> "none"
      [] err = ErrNotExist -> "NotFound"
      [] err \in {ErrUnexpectedStatus, ErrTransport} -> "RemoteError"
      [] OTHER -> "ParseError"

----------------------------------------------------------------------------
(* The remote Gitea instance: a fixed set of repositories.  Each repository *)
(* is what the API answers for it: its topics, its branches, the pages      *)
(* config document on the pages branch, and its files.                      *)

Owners == {"alice", "bob", "carol", "dave"}
RepoNames == {"", "gitea-pages", "site", "wild", "notopic", "all", "broken", "flaky"}
RefNames == {"", "main", "dev", "gitea-pages"}
FilePaths == {"", "/", "index.html", "doc.md", "bad.md", "empty.md", "nope.html"}

ConfigName == "gitea-pages.toml"    \* c.giteapages + ".toml"

\* a TOML document  allowedrefs = [ ... ]
Toml(refs) == <<"allowedrefs">> \o refs

FileBytes(path) ==
    CASE path = "index.html" -> <<"<p>home</p>">>
      [] path = "doc.md"     -> <<"---", "title", "Hi", "---", "# Hello">>
      [] path = "bad.md"     -> <<"---", "title", "---", "text">>
      [] OTHER               -> <<>>

StoredFiles == {"index.html", "doc.md", "bad.md", "empty.md"}

AllBranches == {"gitea-pages", "main", "dev"}

Mk(topics, branches, hasCfg, cfg) ==
    [ exists     |-> TRUE,
      topics     |-> topics,
      topicsFail |-> FALSE,
      branches   |-> branches,
      defaultBranch |-> "main",
      hasCfg     |-> hasCfg,
      cfg        |-> cfg,
      cfgFault   |-> "none",
      fault      |-> "none" ]

NoRepo == [Mk(<<>>, {}, FALSE, <<>>) EXCEPT !.exists = FALSE]

Repo(owner, repo) ==
    CASE owner = "alice" /\ repo = "gitea-pages" ->
            Mk(<<"gitea-pages">>, {"gitea-pages", "main"}, FALSE, <<>>)
      [] owner = "alice" /\ repo = "site" ->
            Mk(<<"blog", "gitea-pages">>, AllBranches, TRUE, Toml(<<"main">>))
      [] owner = "alice" /\ repo = "wild" ->
            Mk(<<"gitea-pages">>, AllBranches, TRUE, Toml(<<"*">>))
      [] owner = "alice" /\ repo = "notopic" ->
            Mk(<<"blog">>, AllBranches, TRUE, Toml(<<"*">>))
      [] owner = "alice" /\ repo = "all" ->
            Mk(<<"gitea-pages", "gitea-pages-allowall">>, AllBranches, FALSE, <<>>)
      [] owner = "alice" /\ repo = "broken" ->
            Mk(<<"gitea-pages">>, AllBranches, TRUE, <<"[[">>)
      [] owner = "alice" /\ repo = "flaky" ->
            [Mk(<<"gitea-pages-allowall">>, AllBranches, TRUE, Toml(<<"main">>))
                EXCEPT !.fault = "500"]
      [] owner = "bob" /\ repo = "gitea-pages" ->
            Mk(<<>>, {"gitea-pages", "main"}, TRUE, Toml(<<"main">>))
      [] owner = "bob" /\ repo = "site" ->
            [Mk(<<"gitea-pages">>, AllBranches, TRUE, Toml(<<"main">>))
                EXCEPT !.cfgFault = "500"]
      [] owner = "bob" /\ repo = "wild" ->
            Mk(<<"gitea-pages">>, AllBranches, TRUE, <<"title", "x">>)
      [] owner = "bob" /\ repo = "notopic" ->
            Mk(<<>>, {"main"}, FALSE, <<>>)
      [] owner = "bob" /\ repo = "all" ->
            Mk(<<"gitea-pages-allowall">>, AllBranches, TRUE, Toml(<<"main">>))
      [] owner = "bob" /\ repo = "broken" ->
            Mk(<<"gitea-pages-allowall">>, AllBranches, TRUE, <<"[[">>)
      [] owner = "bob" /\ repo = "flaky" ->
            [Mk(<<"gitea-pages">>, AllBranches, TRUE, Toml(<<"*">>))
                EXCEPT !.topicsFail = TRUE]
      [] owner = "carol" /\ repo = "gitea-pages" ->
            Mk(<<"blog">>, {"main"}, FALSE, <<>>)
      [] owner = "carol" /\ repo = "site" ->
            Mk(<<"gitea-pages">>, {"main", "dev"}, FALSE, <<>>)
      [] owner = "carol" /\ repo = "wild" ->
            Mk(<<"gitea-pages">>, AllBranches, TRUE, Toml(<<"dev", "main">>))
      [] owner = "carol" /\ repo = "notopic" ->
            Mk(<<"blog">>, AllBranches, TRUE, Toml(<<"main">>))
      [] owner = "carol" /\ repo = "all" ->
            [Mk(<<"gitea-pages-allowall">>, AllBranches, FALSE, <<>>)
                EXCEPT !.fault = "net"]
      [] owner = "carol" /\ repo = "flaky" ->
            [Mk(<<"gitea-pages">>, AllBranches, TRUE, Toml(<<"main">>))
                EXCEPT !.cfgFault = "net"]
      [] owner = "dave" /\ repo = "gitea-pages" ->
            Mk(<<"gitea-pages-allowall">>, AllBranches, FALSE, <<>>)
      [] owner = "dave" /\ repo = "site" ->
            Mk(<<"gitea-pages">>, AllBranches, TRUE, Toml(<<>>))
      [] owner = "dave" /\ repo = "all" ->
            Mk(<<"gitea-pages-allowall">>, AllBranches, TRUE, Toml(<<"*">>))
      [] owner = "dave" /\ repo = "flaky" ->
            [Mk(<<"gitea-pages-allowall">>, AllBranches, FALSE, <<>>)
                EXCEPT !.fault = "403"]
      [] OTHER -> NoRepo

Response(transport, status, body) ==
    [transport |-> transport, status |-> status, body |-> body]

Faulty(kind) ==
    CASE kind = "net" -> Response(TRUE, 0, <<>>)
      [] kind = "403" -> Response(FALSE, 403, <<>>)
      [] OTHER        -> Response(FALSE, 500, <<>>)

\* GET /api/v1/repos/{owner}/{repo}/media/{filepath}?ref={ref}
RemoteMedia(owner, repo, filepath, ref) ==
    LET r == Repo(owner, repo)
        branch == IF ref = "" THEN r.defaultBranch ELSE ref
    IN  IF ~r.exists THEN Response(FALSE, 404, <<>>)
        ELSE IF filepath = ConfigName
        THEN IF r.cfgFault # "none" THEN Faulty(r.cfgFault)
             ELSE IF branch \in r.branches /\ branch = "gitea-pages" /\ r.hasCfg
                  THEN Response(FALSE, 200, r.cfg)
                  ELSE Response(FALSE, 404, <<>>)
        ELSE IF r.fault # "none" THEN Faulty(r.fault)
             ELSE IF branch \in r.branches /\ filepath \in StoredFiles
                  THEN Response(FALSE, 200, FileBytes(filepath))
                  ELSE Response(FALSE, 404, <<>>)

\* GET /api/v1/repos/{owner}/{repo}/branches/{branch}
RemoteBranch(owner, repo, branch) ==
    LET r == Repo(owner, repo)
    IN  IF r.exists /\ branch \in r.branches
        THEN [err |-> FALSE, Name |-> branch]
        ELSE [err |-> TRUE, Name |-> ""]

\* GET /api/v1/repos/{owner}/{repo}/topics
RemoteTopics(owner, repo) ==
    LET r == Repo(owner, repo)
    IN  IF r.exists /\ ~r.topicsFail
        THEN [err |-> FALSE, topics |-> r.topics]
        ELSE [err |-> TRUE, topics |-> <<>>]

----------------------------------------------------------------------------
(* Client: the remote operations *)

Call(op, owner, repo, arg, ref) ==
    [op |-> op, owner |-> owner, repo |-> repo, arg |-> arg, ref |-> ref]

repoTopics(owner, repo) == RemoteTopics(owner, repo)

hasRepoBranchAlways(owner, repo, branch) == TRUE

hasRepoBranch(owner, repo, branch) ==
    LET b == RemoteBranch(owner, repo, branch)
    IN  IF b.err THEN FALSE ELSE b.Name = branch

getRawNotFoundAsStatus(owner, repo, filepath, ref) ==
    LET resp == RemoteMedia(owner, repo, filepath, ref)
    IN  IF resp.transport
        THEN [err |-> ErrTransport, code |-> 0, res |-> <<>>]
        ELSE IF resp.status = StatusOK
        THEN [err |-> ErrNil, code |-> resp.status, res |-> resp.body]
        ELSE [err |-> ErrUnexpectedStatus, code |-> resp.status, res |-> <<>>]

getRawFileOrLFS(owner, repo, filepath, ref) ==
    LET resp == RemoteMedia(owner, repo, filepath, ref)
    IN  IF resp.transport
        THEN [err |-> ErrTransport, code |-> 0, res |-> <<>>]
        ELSE CASE resp.status = StatusNotFound ->
                    [err |-> ErrNotExist, code |-> resp.status, res |-> <<>>]
               [] resp.status = StatusOK ->
                    [err |-> ErrNil, code |-> resp.status, res |-> resp.body]
               [] OTHER ->
                    [err |-> ErrUnexpectedStatus, code |-> resp.status, res |-> <<>>]

----------------------------------------------------------------------------
(* allowsPages: the allowance level of a topic list *)

RECURSIVE HasTopic(_, _, _)
\* for _, topic := range topics { if topic == name { return ... } }, from index i
HasTopic(topics, i, name) ==
    IF i > Len(topics) THEN FALSE
    ELSE IF topics[i] = name THEN TRUE
    ELSE HasTopic(topics, i + 1, name)

SwappedAllowance(t) ==
    IF t.err THEN AllowedBranchesNone
    ELSE IF HasTopic(t.topics, 1, c.giteapages) THEN AllowedBranchesLimited
    ELSE IF HasTopic(t.topics, 1, c.giteapagesAllowAll) THEN AllowedBranchesAll
    ELSE AllowedBranchesNone

\* the body of allowsPages after the topic fetch; t is what repoTopics returned
Allowance(t) ==
    IF t.err THEN AllowedBranchesNone
    ELSE IF HasTopic(t.topics, 1, c.giteapagesAllowAll) THEN AllowedBranchesAll
    ELSE IF HasTopic(t.topics, 1, c.giteapages) THEN AllowedBranchesLimited
    ELSE AllowedBranchesNone

allowsPages(owner, repo) == Allowance(repoTopics(owner, repo))

----------------------------------------------------------------------------
(* The viper store and validRefs *)

\* viper.ReadConfig's decoder on a TOML document: the value of "allowedrefs"
TomlDecode(bytes) ==
    IF bytes = <<>> THEN [err |-> ErrNil, allowedrefs |-> <<>>]
    ELSE IF Head(bytes) = "allowedrefs"
         THEN [err |-> ErrNil, allowedrefs |-> Tail(bytes)]
    ELSE IF Head(bytes) = "title"
         THEN [err |-> ErrNil, allowedrefs |-> <<>>]
    ELSE [err |-> ErrParse, allowedrefs |-> <<>>]

RECURSIVE RefsLoop(_, _, _)
\* for _, r := range validrefs { ... }, from index i
RefsLoop(validrefs, i, ref) ==
    IF i > Len(validrefs) THEN FALSE
    ELSE IF validrefs[i] = ref THEN TRUE
    ELSE IF validrefs[i] = "*" THEN TRUE
    ELSE RefsLoop(validrefs, i + 1, ref)

RECURSIVE ExactLoop(_, _, _)
ExactLoop(validrefs, i, ref) ==
    IF i > Len(validrefs) THEN FALSE
    ELSE IF validrefs[i] = ref THEN TRUE
    ELSE ExactLoop(validrefs, i + 1, ref)

validRefsNoWildcard(ref, allowedBranches, validrefs) ==
    IF allowedBranches = AllowedBranchesAll THEN TRUE
    ELSE ExactLoop(validrefs, 1, ref)

\* validrefs is viper.GetStringSlice("allowedrefs") at the time of the call
validRefs(ref, allowedBranches, validrefs) ==
    IF allowedBranches = AllowedBranchesAll THEN TRUE
    ELSE RefsLoop(validrefs, 1, ref)

----------------------------------------------------------------------------
(* handleMD: front matter, body, document shell *)

RECURSIVE FenceAt(_, _)
\* index of the closing "---" at or after i, 0 if there is none
FenceAt(s, i) ==
    IF i > Len(s) THEN 0
    ELSE IF s[i] = "---" THEN i
    ELSE FenceAt(s, i + 1)

extractFrontMatter(s) ==
    IF s = <<>> \/ Head(s) # "---"
    THEN [err |-> ErrNil, title |-> "", body |-> s]
    ELSE LET j == FenceAt(s, 2)
         IN  IF j = 0 \/ (j - 2) % 2 # 0
             THEN [err |-> ErrParse, title |-> "", body |-> <<>>]
             ELSE [err |-> ErrNil,
                   title |-> IF j >= 4 /\ s[2] = "title" THEN s[3] ELSE "",
                   body |-> SubSeq(s, j + 1, Len(s))]

RECURSIVE markdown(_)
markdown(body) ==
    IF body = <<>> THEN <<>>
    ELSE <<"<p>", Head(body), "</p>">> \o markdown(Tail(body))

handleMD(res) ==
    LET fm == extractFrontMatter(res)
    IN  IF fm.err # ErrNil THEN [err |-> fm.err, res |-> <<>>]
        ELSE [err |-> ErrNil,
              res |-> <<"<!DOCTYPE html>\n<html>\n<body>\n<h1>", fm.title, "</h1>">>
                      \o markdown(fm.body) \o <<"</body></html>">>]

HasSuffixMd(filepath) == filepath \in {"doc.md", "bad.md", "empty.md"}

----------------------------------------------------------------------------
(* Client.Open, in the pieces between its accesses to the global store *)

\* if repo is empty they want to have the gitea-pages repo
NormalizeRepo(repo) == IF repo = "" THEN c.giteapages ELSE repo

NormalizeOnlyEmpty(filepath) == IF filepath = "" THEN "index.html" ELSE filepath

\* if filepath is empty they want to have the index.html
NormalizeFilepath(filepath) ==
    IF filepath = "" \/ filepath = "/" THEN "index.html" ELSE filepath

\* Open up to the call of readConfig: normalisation, allowance, the branch
\* check of the default repository and the compatibility fallback
OpenGate(owner, repo, filepath, ref0, compatibilityMode) ==
    LET allowedBranches == allowsPages(owner, repo)
        t1 == <<Call("topics", owner, repo, "", "")>>
        b1 == <<Call("branch", owner, repo, c.giteapages, "")>>
        base == [ repo |-> repo, filepath |-> filepath, ref |-> ref0,
                  allowedBranches |-> allowedBranches,
                  allowedBranches2 |-> AllowedBranchesNone,
                  fellBack |-> FALSE, err |-> ErrNil, calls |-> t1 ]
    IN  IF allowedBranches # AllowedBranchesNone THEN base
        ELSE IF repo = c.giteapages /\ ~hasRepoBranch(owner, repo, c.giteapages)
        THEN [base EXCEPT !.err = ErrNotExist, !.calls = t1 \o b1]
        ELSE LET calls1 == IF repo = c.giteapages THEN t1 \o b1 ELSE t1
             IN  IF ~compatibilityMode THEN [base EXCEPT !.calls = calls1]
                 ELSE LET maybeRepo == c.giteapages
                          ref == IF ref0 = "" THEN c.giteapages ELSE ref0
                          allowedBranches2 == allowsPages(owner, maybeRepo)
                          calls2 == calls1 \o <<Call("topics", owner, maybeRepo, "", "")>>
                          tried == [base EXCEPT !.ref = ref,
                                                !.allowedBranches2 = allowedBranches2]
                     IN  IF allowedBranches2 = AllowedBranchesNone
                         THEN [tried EXCEPT !.err = ErrNotExist, !.calls = calls2]
                         ELSE IF ~hasRepoBranch(owner, repo, c.giteapages)
                         THEN [tried EXCEPT !.err = ErrNotExist, !.calls = calls2 \o b1]
                         ELSE [tried EXCEPT !.fellBack = TRUE, !.calls = calls2 \o b1]

OpenAllows(owner, repo, filepath, ref, compatibilityMode) ==
    OpenGate(owner, NormalizeRepo(repo), NormalizeFilepath(filepath), ref, compatibilityMode)

ConfigRequiredBelowLimited(repo, allowedBranches) ==
    repo # c.giteapages /\ allowedBranches < AllowedBranchesLimited

ConfigRequiredAnyRepo(repo, allowedBranches) ==
    allowedBranches < AllowedBranchesAll

\* a failed readConfig ends the request: repo != c.giteapages && allowedBranches < All
ConfigRequired(repo, allowedBranches) ==
    repo # c.giteapages /\ allowedBranches < AllowedBranchesAll

ForceOnlyBoth(hasConfig, repo, ref) ==
    ~hasConfig /\ (repo = c.giteapages /\ ref = c.giteapages)

\* the ref is overwritten by the pages branch: !hasConfig && (repo == pages || ref == pages)
ForcePagesRef(hasConfig, repo, ref) ==
    ~hasConfig /\ (repo = c.giteapages \/ ref = c.giteapages)

\* Open from the return of readConfig (cfgErr) to the call of getRawFileOrLFS;
\* validrefs is what the global store holds under "allowedrefs" at this moment
ResolveRef(repo, ref, allowedBranches, cfgErr, validrefs) ==
    LET hasConfig == cfgErr = ErrNil
        out == [ hasConfig |-> hasConfig, ref |-> ref, err |-> ErrNil,
                 forced |-> FALSE, usedStore |-> FALSE ]
    IN  IF cfgErr # ErrNil /\ ConfigRequired(repo, allowedBranches)
        THEN [out EXCEPT !.hasConfig = TRUE, !.err = cfgErr]
        ELSE IF ForcePagesRef(hasConfig, repo, ref)
        THEN [out EXCEPT !.ref = c.giteapages, !.forced = TRUE]
        ELSE IF ~validRefs(ref, allowedBranches, validrefs)
        THEN [out EXCEPT !.err = ErrNotExist,
                         !.usedStore = (allowedBranches # AllowedBranchesAll)]
        ELSE [out EXCEPT !.usedStore = (allowedBranches # AllowedBranchesAll)]

\* Open after getRawFileOrLFS returned raw: handleMD for a .md path, openFile
Render(raw, filepath, md) ==
    IF raw.err # ErrNil
    THEN [err |-> raw.err, code |-> raw.code, content |-> <<>>, name |-> ""]
    ELSE IF ~HasSuffixMd(filepath)
    THEN [err |-> ErrNil, code |-> raw.code, content |-> raw.res, name |-> filepath]
    ELSE IF md.err # ErrNil
    THEN [err |-> md.err, code |-> raw.code, content |-> <<>>, name |-> ""]
    ELSE [err |-> ErrNil, code |-> raw.code, content |-> md.res, name |-> filepath]

RenderNever(raw, filepath) == Render(raw, filepath, [err |-> ErrNil, res |-> raw.res])

RenderMD(raw, filepath) == Render(raw, filepath, handleMD(raw.res))

\* Open from getRawFileOrLFS to its return
FetchAndRender(owner, repo, filepath, ref) ==
    RenderMD(getRawFileOrLFS(owner, repo, filepath, ref), filepath)

----------------------------------------------------------------------------
(* State *)

Procs == {1, 2}     \* the goroutines net/http serves requests on

Blank ==
    [ pc |-> "idle",
      owner |-> "", repo |-> "", filepath |-> "", ref |-> "",
      argRepo |-> "", argPath |-> "", argRef |-> "", compat |-> FALSE,
      allowedBranches |-> AllowedBranchesNone,
      allowedBranches2 |-> AllowedBranchesNone,
      fellBack |-> FALSE,
      cfgBytes |-> <<>>, cfgErr |-> ErrNil,
      loaded |-> FALSE, ownCfg |-> <<>>,
      hasConfig |-> TRUE, forced |-> FALSE,
      usedStore |-> FALSE, readStore |-> <<>>, readMap |-> 0, readFrom |-> <<"", "">>,
      fetched |-> FALSE, fetchRef |-> "",
      err |-> ErrNil, errCode |-> 0, served |-> FALSE, content |-> <<>>, name |-> "",
      status |-> 0, wrote |-> <<>>,
      calls |-> <<>> ]

NoTarget == [owner |-> <<>>, repo |-> <<>>, filePath |-> <<>>, ref |-> <<>>]

FnIdle ==
    [ op |-> "none", ref |-> "", level |-> AllowedBranchesNone,
      terr |-> FALSE, topics |-> <<>>, done |-> FALSE,
      allowed |-> FALSE, out |-> AllowedBranchesNone,
      labels |-> <<>>, segs |-> <<>>, slash |-> FALSE,
      host |-> <<>>, path |-> <<>>, query |-> <<>>,
      inferred |-> NoTarget ]

Domains == {"", "example.com"}

\* the store before any ReadConfig
EmptyStore == [map |-> 0, owner |-> "", repo |-> "", allowedrefs |-> <<>>]

Init ==
    /\ domain \in Domains
    /\ viper = EmptyStore
    /\ req = [p \in Procs |-> Blank]
    /\ fatal = FALSE
    /\ fn = FnIdle

----------------------------------------------------------------------------
(* Actions *)

\* ServeHTTP up to the call of Open; the inferred target is drawn from bounded sets
ServeHTTP(p, owners, repos, paths, refs) ==
    /\ ~fatal
    /\ req[p].pc = "idle"
    /\ \E owner \in owners, repo \in repos, filePath \in paths, ref \in refs :
         req' = [req EXCEPT ![p] =
                    [Blank EXCEPT !.pc = "allows",
                                  !.owner = owner, !.repo = repo,
                                  !.filepath = filePath, !.ref = ref,
                                  !.argRepo = repo, !.argPath = filePath,
                                  !.argRef = ref,
                                  !.compat = (domain = "")]]
    /\ UNCHANGED <<domain, viper, fatal, fn>>

OpenAllowsPages(p) ==
    /\ ~fatal
    /\ req[p].pc = "allows"
    /\ LET r == req[p]
           a == OpenAllows(r.owner, r.repo, r.filepath, r.ref, r.compat)
       IN  req' = [req EXCEPT ![p] =
                    [r EXCEPT !.pc = IF a.err # ErrNil THEN "respond" ELSE "readConfig",
                              !.repo = a.repo, !.filepath = a.filepath, !.ref = a.ref,
                              !.allowedBranches = a.allowedBranches,
                              !.allowedBranches2 = a.allowedBranches2,
                              !.fellBack = a.fellBack,
                              !.err = a.err, !.calls = a.calls]]
    /\ UNCHANGED <<domain, viper, fatal, fn>>

\* readConfig: the fetch of the config document, then viper.ReadConfig replaces
\* the store's map by a new, empty one
readConfigFetch(p) ==
    /\ ~fatal
    /\ req[p].pc = "readConfig"
    /\ LET r == req[p]
           cfg == getRawFileOrLFS(r.owner, r.repo, ConfigName, c.giteapages)
           calls == Append(r.calls, Call("media", r.owner, r.repo, ConfigName, c.giteapages))
       IN  IF cfg.err # ErrNil
           THEN /\ req' = [req EXCEPT ![p] =
                            [r EXCEPT !.pc = "resolve", !.cfgErr = cfg.err, !.calls = calls]]
                /\ UNCHANGED viper
           ELSE /\ req' = [req EXCEPT ![p] =
                            [r EXCEPT !.pc = "decode", !.cfgBytes = cfg.res, !.calls = calls]]
                /\ viper' = [map |-> p, owner |-> r.owner, repo |-> r.repo,
                             allowedrefs |-> <<>>]
    /\ UNCHANGED <<domain, fatal, fn>>

\* viper.ReadConfig: the decoder fills the map this call created
readConfigDecode(p) ==
    /\ ~fatal
    /\ req[p].pc = "decode"
    /\ LET r == req[p]
           d == TomlDecode(r.cfgBytes)
       IN  /\ req' = [req EXCEPT ![p] =
                        [r EXCEPT !.pc = "resolve", !.cfgErr = d.err, !.cfgBytes = <<>>,
                                  !.loaded = (d.err = ErrNil),
                                  !.ownCfg = d.allowedrefs]]
           /\ viper' = IF viper.map = p /\ d.err = ErrNil
                       THEN [viper EXCEPT !.allowedrefs = d.allowedrefs]
                       ELSE viper
    /\ UNCHANGED <<domain, fatal, fn>>

OpenResolveRef(p) ==
    /\ ~fatal
    /\ req[p].pc = "resolve"
    /\ LET r == req[p]
           v == ResolveRef(r.repo, r.ref, r.allowedBranches, r.cfgErr, viper.allowedrefs)
       IN  req' = [req EXCEPT ![p] =
                    [r EXCEPT !.pc = IF v.err # ErrNil THEN "respond" ELSE "fetch",
                              !.hasConfig = v.hasConfig, !.ref = v.ref,
                              !.forced = v.forced, !.err = v.err,
                              !.usedStore = v.usedStore,
                              !.readStore = IF v.usedStore THEN viper.allowedrefs ELSE <<>>,
                              !.readMap = IF v.usedStore THEN viper.map ELSE 0,
                              !.readFrom = IF v.usedStore THEN <<viper.owner, viper.repo>>
                                           ELSE <<"", "">>]]
    /\ UNCHANGED <<domain, viper, fatal, fn>>

\* the raw fetch and the rest of Open, for a request at one of the places pcs
FetchAt(p, pcs) ==
    /\ ~fatal
    /\ req[p].pc \in pcs
    /\ LET r == req[p]
           f == FetchAndRender(r.owner, r.repo, r.filepath, r.ref)
       IN  req' = [req EXCEPT ![p] =
                    [r EXCEPT !.pc = "respond",
                              !.fetched = TRUE, !.fetchRef = r.ref,
                              !.calls = Append(r.calls,
                                    Call("media", r.owner, r.repo, r.filepath, r.ref)),
                              !.err = f.err, !.served = (f.err = ErrNil),
                              !.errCode = IF f.err = ErrUnexpectedStatus THEN f.code ELSE 0,
                              !.content = f.content, !.name = f.name]]
    /\ UNCHANGED <<domain, viper, fatal, fn>>

OpenFetchBeforeConfig(p) == FetchAt(p, {"readConfig", "fetch"})

OpenFetch(p) == FetchAt(p, {"fetch"})

\* ServeHTTP after Open returned: caddyhttp.Error(404, err), or io.Copy(w, f)
ServeHTTPRespond(p) ==
    /\ ~fatal
    /\ req[p].pc = "respond"
    /\ LET r == req[p]
       IN  req' = [req EXCEPT ![p] =
                    [r EXCEPT !.pc = "done",
                              !.status = IF r.err # ErrNil THEN StatusNotFound ELSE StatusOK,
                              !.wrote = IF r.err # ErrNil THEN <<>> ELSE r.content]]
    /\ UNCHANGED <<domain, viper, fatal, fn>>

\* ServeHTTP returns: the goroutine's locals are gone, the global store stays
ServeHTTPReturn(p) ==
    /\ ~fatal
    /\ req[p].pc = "done"
    /\ req' = [req EXCEPT ![p] = Blank]
    /\ UNCHANGED <<domain, viper, fatal, fn>>

\* validRefs reads the store's map while another goroutine's decoder writes it:
\* the Go runtime may stop the process
ConcurrentMapFatal(p, q) ==
    /\ ~fatal
    /\ p # q
    /\ req[p].pc = "resolve"
    /\ ResolveRef(req[p].repo, req[p].ref, req[p].allowedBranches,
                  req[p].cfgErr, viper.allowedrefs).usedStore
    /\ req[q].pc = "decode"
    /\ viper.map = q
    /\ fatal' = TRUE
    /\ UNCHANGED <<domain, viper, req, fn>>

Step(p) ==
    \/ OpenAllowsPages(p)
    \/ readConfigFetch(p)
    \/ readConfigDecode(p)
    \/ OpenResolveRef(p)
    \/ OpenFetch(p)
    \/ ServeHTTPRespond(p)
    \/ ServeHTTPReturn(p)

\* one request at a time
Next ==
    \/ ServeHTTP(1, Owners, RepoNames, FilePaths, RefNames)
    \/ Step(1)

Spec == Init /\ [][Next]_vars

\* requests served concurrently
ConcOwners == {"alice"}
ConcRepos == {"", "site", "wild", "all"}
ConcPaths == {"index.html"}
ConcRefs == {"", "main", "dev"}

NextConc ==
    \/ \E p \in Procs : ServeHTTP(p, ConcOwners, ConcRepos, ConcPaths, ConcRefs)
    \/ \E p \in Procs : Step(p)
    \/ \E p, q \in Procs : ConcurrentMapFatal(p, q)

SpecConc == Init /\ [][NextConc]_vars

----------------------------------------------------------------------------
(* The pure functions applied to inputs drawn from bounded sets *)

SeqsUpTo(S, n) == UNION {[1..k -> S] : k \in 0..n}

Range(s) == {s[i] : i \in 1..Len(s)}

RefTokens == {"main", "dev", "gitea-pages", "*"}
TopicTokens == {"gitea-pages", "gitea-pages-allowall", "blog"}
Levels == {AllowedBranchesNone, AllowedBranchesLimited, AllowedBranchesAll}

InitValidRefs ==
    /\ domain = ""
    /\ viper \in {[EmptyStore EXCEPT !.allowedrefs = a] :
                        a \in SeqsUpTo(RefTokens, MaxAllowedRefs)}
    /\ req = [p \in Procs |-> Blank]
    /\ fatal = FALSE
    /\ fn \in {[FnIdle EXCEPT !.op = "validRefs", !.ref = r, !.level = l] :
                    r \in RefTokens \cup {""}, l \in Levels}

ApplyValidRefs ==
    /\ fn.op = "validRefs"
    /\ ~fn.done
    /\ fn' = [fn EXCEPT !.done = TRUE,
                        !.allowed = validRefs(fn.ref, fn.level, viper.allowedrefs)]
    /\ UNCHANGED <<domain, viper, req, fatal>>

SpecValidRefs == InitValidRefs /\ [][ApplyValidRefs]_vars

InitAllowsPages ==
    /\ domain = ""
    /\ viper = EmptyStore
    /\ req = [p \in Procs |-> Blank]
    /\ fatal = FALSE
    /\ fn \in {[FnIdle EXCEPT !.op = "allowsPages", !.terr = e, !.topics = t] :
                    e \in BOOLEAN, t \in SeqsUpTo(TopicTokens, MaxTopics)}

ApplyAllowsPages ==
    /\ fn.op = "allowsPages"
    /\ ~fn.done
    /\ fn' = [fn EXCEPT !.done = TRUE,
                        !.out = Allowance([err |-> fn.terr, topics |-> fn.topics])]
    /\ UNCHANGED <<domain, viper, req, fatal>>

SpecAllowsPages == InitAllowsPages /\ [][ApplyAllowsPages]_vars

----------------------------------------------------------------------------
(* Properties *)

Done(p) == req[p].pc = "done"

\* the topic list of the repository a request names, as the remote holds it
TargetRepo(p) == IF req[p].argRepo = "" THEN c.giteapages ELSE req[p].argRepo
TargetTopics(p) == RemoteTopics(req[p].owner, TargetRepo(p))
NoReservedTopic(p) ==
    /\ ~TargetTopics(p).err
    /\ c.giteapages \notin Range(TargetTopics(p).topics)
    /\ c.giteapagesAllowAll \notin Range(TargetTopics(p).topics)

\* C1: with a configured domain, a request for a repository that is not the
\* default pages repository and has neither reserved topic ends in NotFound
\* and returns no file, whatever its branches, config and files are.
C1_TopicGate ==
    \A p \in Procs :
        (Done(p) /\ ~req[p].compat /\ TargetRepo(p) # c.giteapages /\ NoReservedTopic(p))
            => (req[p].err = ErrNotExist /\ ~req[p].served)

\* C2: whenever Open returns a file, the ref of the raw fetch is covered by
\* level All, by the allowedrefs of the config this request loaded (verbatim
\* or "*"), or it is the pages name and no config was loaded.
C2_RefGate ==
    \A p \in Procs :
        req[p].served =>
            \/ req[p].allowedBranches = AllowedBranchesAll
            \/ /\ req[p].loaded
               /\ (req[p].fetchRef \in Range(req[p].ownCfg) \/ "*" \in Range(req[p].ownCfg))
            \/ /\ ~req[p].loaded
               /\ req[p].fetchRef = c.giteapages

\* C3: with concurrent requests on different repositories, the ref validation
\* of a request reads the complete configuration this same request loaded,
\* never a partial one nor the one another request wrote; a Limited
\* repository with allowedrefs = ["main"] is never served at "dev".
C3_ConfigIsolation ==
    \A p \in Procs :
        /\ (req[p].usedStore
                /\ (req[p].readMap = p \/ req[p].readFrom # <<req[p].owner, req[p].repo>>))
            => (req[p].loaded /\ req[p].readStore = req[p].ownCfg)
        /\ ~(req[p].served /\ req[p].owner = "alice" /\ req[p].repo = "site"
                /\ req[p].fetchRef = "dev")

\* C4: in compatibility mode, when the inferred repository has level None and
\* the default pages repository has a level above None and the pages branch,
\* the rest of the request works on the default pages repository with the
\* level recomputed for it; otherwise the request ends in NotFound.
C4_FallbackRetargets ==
    \A p \in Procs :
        LET r == req[p]
            level0 == allowsPages(r.owner, TargetRepo(p))
            level2 == allowsPages(r.owner, c.giteapages)
            branch2 == hasRepoBranch(r.owner, c.giteapages, c.giteapages)
        IN  (r.compat /\ r.pc \notin {"idle", "allows"} /\ level0 = AllowedBranchesNone)
            => IF level2 # AllowedBranchesNone /\ branch2
               THEN /\ r.pc \in {"readConfig", "decode", "resolve", "fetch"}
                        => (r.repo = c.giteapages /\ r.allowedBranches = level2)
                    /\ \A i \in 1..Len(r.calls) :
                        r.calls[i].op \in {"media", "branch"}
                            => r.calls[i].repo = c.giteapages
                    /\ r.pc = "done" =>
                        \E i \in 1..Len(r.calls) : r.calls[i].op = "media"
               ELSE r.pc = "done" => r.err = ErrNotExist

\* C5: a NotFound outcome gives status 404; a RemoteError or ParseError
\* outcome gives a 5xx status, never 404.
C5_StatusClasses ==
    \A p \in Procs :
        Done(p) =>
            /\ ErrorKind(req[p].err) = "NotFound" => req[p].status = 404
            /\ ErrorKind(req[p].err) \in {"RemoteError", "ParseError"}
                    => req[p].status \in 500..599

\* C6: when the config load failed and the current repository is the default
\* pages repository, or the requested ref is the pages name, the raw fetch
\* uses the pages name as ref, whatever ref was asked and whatever the level.
C6_ConfiglessPagesBranch ==
    \A p \in Procs :
        (req[p].cfgErr # ErrNil
            /\ (req[p].repo = c.giteapages \/ req[p].argRef = c.giteapages))
            => /\ req[p].fetched => req[p].fetchRef = c.giteapages
               /\ req[p].pc = "fetch" => req[p].ref = c.giteapages
               /\ (req[p].repo = c.giteapages /\ req[p].pc \in {"respond", "done"})
                    => req[p].fetched

C6_Witness ==
    \E p \in Procs :
        /\ req[p].fetched /\ req[p].cfgErr # ErrNil
        /\ req[p].repo = c.giteapages
        /\ req[p].argRef = "main"
        /\ req[p].allowedBranches = AllowedBranchesAll
        /\ req[p].fetchRef = c.giteapages

\* C7: validRefs is true at level All whatever the store holds; below All it
\* is true exactly when the stored allowedrefs holds the ref verbatim or
\* holds "*", so it is false on the empty store.
C7_ValidRefsReference ==
    (fn.op = "validRefs" /\ fn.done) =>
        fn.allowed = ( \/ fn.level = AllowedBranchesAll
                       \/ fn.ref \in Range(viper.allowedrefs)
                       \/ "*" \in Range(viper.allowedrefs) )

C7_Witness ==
    /\ fn.op = "validRefs" /\ fn.done
    /\ fn.level = AllowedBranchesLimited
    /\ viper.allowedrefs = <<"main">>
    /\ fn.ref = "dev"
    /\ ~fn.allowed

InsertAt(s, i, x) == SubSeq(s, 1, i) \o <<x>> \o SubSeq(s, i + 1, Len(s))

\* C8: the level is All if the allow-all topic is listed, else Limited if the
\* pages topic is, else None, and None when the topic fetch failed; adding
\* the allow-all topic never lowers it, and no reserved topic gives None.
C8_AllowanceReference ==
    (fn.op = "allowsPages" /\ fn.done) =>
        /\ fn.out = IF fn.terr THEN AllowedBranchesNone
                    ELSE IF c.giteapagesAllowAll \in Range(fn.topics) THEN AllowedBranchesAll
                    ELSE IF c.giteapages \in Range(fn.topics) THEN AllowedBranchesLimited
                    ELSE AllowedBranchesNone
        /\ \A i \in 0..Len(fn.topics) :
                Allowance([err |-> fn.terr,
                           topics |-> InsertAt(fn.topics, i, c.giteapagesAllowAll)])
                    >= fn.out
        /\ (Range(fn.topics) \cap {c.giteapages, c.giteapagesAllowAll} = {})
                => fn.out = AllowedBranchesNone

C8_Witness ==
    /\ fn.op = "allowsPages" /\ fn.done /\ ~fn.terr
    /\ fn.topics = <<"gitea-pages", "blog", "gitea-pages-allowall">>
    /\ fn.out = AllowedBranchesAll

\* what the remote holds for the repository and file a request names
Healthy(p) ==
    LET r == Repo(req[p].owner, TargetRepo(p))
    IN  r.fault = "none" /\ r.cfgFault = "none" /\ ~r.topicsFail
            /\ TomlDecode(r.cfg).err = ErrNil /\ req[p].filepath # "bad.md"

RepoAbsent(p) == ~Repo(req[p].owner, TargetRepo(p)).exists
LacksTopics(p) == ~req[p].compat /\ NoReservedTopic(p)
RefRefused(p) ==
    req[p].usedStore /\ ~validRefs(req[p].ref, req[p].allowedBranches, req[p].readStore)
ContentAbsent(p) ==
    /\ req[p].fetched
    /\ RemoteMedia(req[p].owner, req[p].repo, req[p].filepath, req[p].fetchRef).status
            = StatusNotFound

\* C9: requests that differ only in why content is unavailable (repository
\* absent, branch or file absent, no reserved topic, ref not allowed) get the
\* same outcome: the NotFound error and status 404.
C9_NotFoundUniform ==
    \A p \in Procs :
        (Done(p) /\ Healthy(p)
            /\ (RepoAbsent(p) \/ LacksTopics(p) \/ RefRefused(p) \/ ContentAbsent(p)))
            => (ErrorKind(req[p].err) = "NotFound" /\ req[p].status = 404)

\* Open as the first call of the process: the store is empty before it
OpenFirst(owner, repo, filepath, ref, compatibilityMode) ==
    LET a == OpenAllows(owner, repo, filepath, ref, compatibilityMode)
        none == [err |-> a.err, content |-> <<>>, fetched |-> FALSE, fetchRef |-> ""]
    IN  IF a.err # ErrNil THEN none
        ELSE LET cfg == getRawFileOrLFS(owner, a.repo, ConfigName, c.giteapages)
                 d == TomlDecode(cfg.res)
                 cfgErr == IF cfg.err # ErrNil THEN cfg.err ELSE d.err
                 store == IF cfgErr = ErrNil THEN d.allowedrefs ELSE <<>>
                 v == ResolveRef(a.repo, a.ref, a.allowedBranches, cfgErr, store)
             IN  IF v.err # ErrNil THEN [none EXCEPT !.err = v.err]
                 ELSE LET f == FetchAndRender(owner, a.repo, a.filepath, v.ref)
                      IN  [err |-> f.err, content |-> f.content,
                           fetched |-> TRUE, fetchRef |-> v.ref]

\* C10: with requests served one after another on an unchanged remote, the
\* outcome of each (error, bytes, ref fetched) is the one the same call has
\* as the first call of the process.
C10_SequentialIndependence ==
    \A p \in Procs :
        Done(p) =>
            [err |-> req[p].err, content |-> req[p].content,
             fetched |-> req[p].fetched, fetchRef |-> req[p].fetchRef]
            = OpenFirst(req[p].owner, req[p].argRepo, req[p].argPath, req[p].argRef,
                        req[p].compat)

C10_Witness ==
    \E p \in Procs :
        /\ Done(p)
        /\ req[p].cfgErr # ErrNil
        /\ viper.allowedrefs = <<"*">>
        /\ req[p].allowedBranches = AllowedBranchesLimited
        /\ req[p].argRef = "dev"
        /\ req[p].fetchRef = c.giteapages
        /\ req[p].served

----------------------------------------------------------------------------
(* Middleware.inferOwnerRepoPathAndRef.  Host and path are strings, here     *)
(* sequences of tokens in which "." and "/" are tokens of their own; the     *)
(* empty string is <<>>.                                                     *)

\* strings.TrimSuffix
TrimSuffix(str, suffix) ==
    IF Len(suffix) <= Len(str)
       /\ SubSeq(str, Len(str) - Len(suffix) + 1, Len(str)) = suffix
    THEN SubSeq(str, 1, Len(str) - Len(suffix))
    ELSE str

RECURSIVE TrimRight(_, _)
\* strings.TrimRight with a one-character cutset
TrimRight(str, ch) ==
    IF str # <<>> /\ str[Len(str)] = ch
    THEN TrimRight(SubSeq(str, 1, Len(str) - 1), ch)
    ELSE str

RECURSIVE IndexOf(_, _, _)
IndexOf(str, sep, i) ==
    IF i > Len(str) THEN 0
    ELSE IF str[i] = sep THEN i
    ELSE IndexOf(str, sep, i + 1)

RECURSIVE Split(_, _)
\* strings.Split: the pieces between the separators, at least one piece
Split(str, sep) ==
    LET i == IndexOf(str, sep, 1)
    IN  IF i = 0 THEN <<str>>
        ELSE <<SubSeq(str, 1, i - 1)>> \o Split(SubSeq(str, i + 1, Len(str)), sep)

RECURSIVE Join(_, _)
\* strings.Join
Join(parts, sep) ==
    IF parts = <<>> THEN <<>>
    ELSE IF Len(parts) = 1 THEN parts[1]
    ELSE parts[1] \o <<sep>> \o Join(Tail(parts), sep)

RECURSIVE QueryGet(_, _, _)
\* url.Values.Get: the first value of the key, "" if there is none
QueryGet(query, key, i) ==
    IF i > Len(query) THEN <<>>
    ELSE IF query[i][1] = key THEN query[i][2]
    ELSE QueryGet(query, key, i + 1)

\* Domain as a string of tokens
DomainString(d) == IF d = "" THEN <<>> ELSE <<"example", ".", "com">>

\* the function, with the places where a slip is plausible left open:
\* swapTwo exchanges owner and repo of a two-label host, joinFrom is the
\* index of the first path part that goes into the file path
inferWith(Domain, Host, Path, query, swapTwo, joinFrom) ==
    LET host == TrimRight(TrimSuffix(Host, Domain), ".")
        h == Split(host, ".")
        ref == QueryGet(query, "ref", 1)
    IN  IF Domain = <<>>
        THEN LET parts == Split(Path, "/")
             IN  IF Len(parts) = 1
                 THEN [owner |-> h[1], repo |-> <<>>, filePath |-> parts[1], ref |-> ref]
                 ELSE [owner |-> h[1], repo |-> parts[1],
                       filePath |-> Join(SubSeq(parts, joinFrom, Len(parts)), "/"),
                       ref |-> ref]
        ELSE CASE Len(h) = 2 ->
                    IF swapTwo
                    THEN [owner |-> h[1], repo |-> h[2], filePath |-> Path, ref |-> ref]
                    ELSE [owner |-> h[2], repo |-> h[1], filePath |-> Path, ref |-> ref]
               [] Len(h) = 3 ->
                    [owner |-> h[3], repo |-> h[2], filePath |-> Path, ref |-> h[1]]
               [] OTHER ->
                    [owner |-> h[1], repo |-> <<>>, filePath |-> Path, ref |-> ref]

inferSwappedLabels(Domain, Host, Path, query) ==
    inferWith(Domain, Host, Path, query, TRUE, 2)

inferJoinAllParts(Domain, Host, Path, query) ==
    inferWith(Domain, Host, Path, query, FALSE, 1)

inferOwnerRepoPathAndRef(Domain, Host, Path, query) ==
    inferWith(Domain, Host, Path, query, FALSE, 2)

LabelTokens == {"someorg", "somerepo", "somebranch"}
SegTokens == {"myrepo", "dir", "file.html"}
Queries ==
    { <<>>,
      << <<"ref", <<"dev">> >> >>,
      << <<"page", <<"2">> >>, <<"ref", <<"main">> >>, <<"ref", <<"dev">> >> >> }

Pieces(tokens) == [i \in 1..Len(tokens) |-> <<tokens[i]>>]

\* the host  label. ... .label.domain  (no domain suffix when none is configured)
HostOf(labels, d) ==
    Join(Pieces(labels), ".") \o (IF d = "" THEN <<>> ELSE <<".">> \o DomainString(d))

\* the path  /seg/.../seg, or without the leading slash
PathOf(slash, segs) ==
    (IF slash THEN <<"/">> ELSE <<>>) \o Join(Pieces(segs), "/")

InitInfer ==
    /\ domain \in Domains
    /\ viper = EmptyStore
    /\ req = [p \in Procs |-> Blank]
    /\ fatal = FALSE
    /\ fn \in {[FnIdle EXCEPT !.op = "infer", !.labels = l, !.segs = g, !.slash = b,
                              !.host = HostOf(l, domain), !.path = PathOf(b, g),
                              !.query = q] :
                    l \in SeqsUpTo(LabelTokens, MaxLabels) \ {<<>>},
                    g \in SeqsUpTo(SegTokens, MaxSegs),
                    b \in BOOLEAN, q \in Queries}

ApplyInfer ==
    /\ fn.op = "infer"
    /\ ~fn.done
    /\ fn' = [fn EXCEPT !.done = TRUE,
                        !.inferred = inferOwnerRepoPathAndRef(
                                        DomainString(domain), fn.host, fn.path, fn.query)]
    /\ UNCHANGED <<domain, viper, req, fatal>>

SpecInfer == InitInfer /\ [][ApplyInfer]_vars

\* the value of the ref query parameter
RefParam(query) ==
    LET at == {i \in 1..Len(query) : query[i][1] = "ref"}
    IN  IF at = {} THEN <<>>
        ELSE query[CHOOSE i \in at : \A j \in at : i <= j][2]

Inferred == fn.op = "infer" /\ fn.done

\* C11: with a configured domain, one label before the domain gives (owner =
\* label, repo empty, ref = ref parameter), two labels repo.owner give (owner,
\* repo, ref = ref parameter), three labels ref.repo.owner give (owner, repo,
\* ref); the file path is the URL path verbatim.
C11_SubdomainResolution ==
    (Inferred /\ domain # "") =>
        LET l == fn.labels
            t == fn.inferred
        IN  /\ Len(l) \in 1..3 => t.filePath = fn.path
            /\ Len(l) = 1 =>
                (t.owner = <<l[1]>> /\ t.repo = <<>> /\ t.ref = RefParam(fn.query))
            /\ Len(l) = 2 =>
                (t.owner = <<l[2]>> /\ t.repo = <<l[1]>> /\ t.ref = RefParam(fn.query))
            /\ Len(l) = 3 =>
                (t.owner = <<l[3]>> /\ t.repo = <<l[2]>> /\ t.ref = <<l[1]>>)

C11_Witness ==
    /\ Inferred /\ domain = "example.com"
    /\ fn.labels = <<"somebranch", "somerepo", "someorg">>
    /\ fn.path = <<"/", "myrepo", "/", "dir", "/", "file.html">>
    /\ fn.inferred = [owner |-> <<"someorg">>, repo |-> <<"somerepo">>,
                      filePath |-> fn.path, ref |-> <<"somebranch">>]

\* C12: with no configured domain, for a URL path of two or more segments the
\* repository is the first segment and the file path is the remainder; owner
\* is the first label of the host and ref is the ref parameter.
C12_LegacySeveralSegments ==
    (Inferred /\ domain = "" /\ Len(fn.segs) >= 2) =>
        /\ fn.inferred.repo = <<fn.segs[1]>>
        /\ fn.inferred.filePath = Join(Pieces(Tail(fn.segs)), "/")
        /\ fn.inferred.owner = <<fn.labels[1]>>
        /\ fn.inferred.ref = RefParam(fn.query)

\* C13: with no configured domain, for a URL path of a single segment, with
\* or without a leading slash, the repository is empty and the file path is
\* that segment.
C13_LegacySingleSegment ==
    (Inferred /\ domain = "" /\ Len(fn.segs) = 1) =>
        /\ fn.inferred.repo = <<>>
        /\ fn.inferred.filePath = <<fn.segs[1]>>

C13_Witness ==
    /\ Inferred /\ domain = ""
    /\ fn.slash /\ fn.segs = <<"file.html">>
    /\ fn.path = <<"/", "file.html">>
    /\ fn.inferred.repo = <<>>
    /\ fn.inferred.filePath = <<"file.html">>

Entered(p) == req[p].pc \notin {"idle", "allows"}

CallsOf(p) == {req[p].calls[i] : i \in 1..Len(req[p].calls)}

\* C14: Open replaces an empty repository by the pages reserved name and a
\* file path that is empty or "/" by index.html, and leaves any other
\* repository or file path unchanged; every remote call of the request and
\* the name of the returned file use the normalized values.
C14_Normalization ==
    \A p \in Procs :
        LET r == req[p]
        IN  Entered(p) =>
              /\ r.repo = (IF r.argRepo = "" THEN "gitea-pages" ELSE r.argRepo)
              /\ r.filepath = (IF r.argPath \in {"", "/"} THEN "index.html" ELSE r.argPath)
              /\ \A k \in CallsOf(p) :
                    /\ k.owner = r.owner
                    /\ k.repo \in {r.repo, "gitea-pages"}
                    /\ k.op = "media" => (k.repo = r.repo /\ k.arg \in {ConfigName, r.filepath})
              /\ r.fetched => Call("media", r.owner, r.repo, r.filepath, r.fetchRef) \in CallsOf(p)
              /\ r.served => r.name = r.filepath

C14_Witness ==
    \E p \in Procs :
        /\ Done(p) /\ req[p].served
        /\ req[p].argRepo = "" /\ req[p].argPath = "/"
        /\ req[p].name = "index.html"
        /\ Call("media", req[p].owner, "gitea-pages", "index.html", "gitea-pages") \in CallsOf(p)

\* the request is past the handling of readConfig's result
Resolved(p) == req[p].pc \in {"fetch", "respond", "done"} /\ Entered(p)

TargetCall(p) ==
    {k \in CallsOf(p) : k.op = "media" /\ k.arg # ConfigName}

\* C15: when the config load fails and the repository is not the default
\* pages repository and the level is below All, the request ends with the
\* config-load error and no raw fetch of the target file is issued; when it
\* fails and the repository is the default pages repository or the level is
\* All, the request goes on with hasConfig = false.
C15_ConfigFailurePolicy ==
    \A p \in Procs :
        LET r == req[p]
        IN  (Resolved(p) /\ r.cfgErr # ErrNil) =>
              IF r.repo # "gitea-pages" /\ r.allowedBranches < AllowedBranchesAll
              THEN /\ r.pc # "fetch"
                   /\ r.err = r.cfgErr
                   /\ ~r.fetched /\ ~r.served
                   /\ TargetCall(p) = {}
              ELSE /\ ~r.hasConfig
                   /\ r.pc = "fetch" \/ r.fetched
                   /\ r.fetched => TargetCall(p) # {}

C15_Witness ==
    \E p \in Procs :
        /\ Done(p)
        /\ req[p].owner = "bob" /\ req[p].repo = "site"
        /\ req[p].allowedBranches = AllowedBranchesLimited
        /\ req[p].cfgErr = ErrUnexpectedStatus
        /\ req[p].err = ErrUnexpectedStatus
        /\ ~req[p].fetched

\* C16: when the level is None, the repository is the default pages
\* repository and it has no branch named after the pages reserved name (or
\* the branch check fails), the request ends in NotFound in both modes, with
\* no config load and no raw fetch issued.
C16_DefaultRepoEarlyReject ==
    \A p \in Procs :
        LET r == req[p]
            pages == Repo(r.owner, "gitea-pages")
        IN  ( /\ Entered(p)
              /\ r.allowedBranches = AllowedBranchesNone
              /\ r.repo = "gitea-pages"
              /\ ~(pages.exists /\ "gitea-pages" \in pages.branches) ) =>
                /\ r.pc \in {"respond", "done"}
                /\ r.err = ErrNotExist
                /\ ErrorKind(r.err) = "NotFound"
                /\ r.pc = "done" => r.status = StatusNotFound
                /\ \A k \in CallsOf(p) : k.op # "media"
                /\ ~r.loaded /\ r.cfgErr = ErrNil
                /\ ~r.fetched /\ ~r.served

C16_Witness ==
    \E p \in Procs :
        /\ Done(p)
        /\ req[p].owner = "carol" /\ req[p].argRepo = ""
        /\ Repo("carol", "gitea-pages").exists
        /\ req[p].calls = <<Call("topics", "carol", "gitea-pages", "", ""),
                            Call("branch", "carol", "gitea-pages", "gitea-pages", "")>>
        /\ req[p].status = StatusNotFound

\* C17: within one request no remote operation is issued twice with the same
\* arguments, in either mode and for every target, and the request ends
\* after a bounded number of remote calls.
C17_NoRepeatedCall ==
    \A p \in Procs :
        /\ \A i, j \in 1..Len(req[p].calls) :
                i # j => req[p].calls[i] # req[p].calls[j]
        /\ Len(req[p].calls) <= 6

Rank(k) ==
    CASE k.op \in {"topics", "branch"} -> 1
      [] k.op = "media" /\ k.arg = ConfigName -> 2
      [] OTHER -> 3

\* C18: the remote calls of a request happen in the order topics, branch
\* check / fallback topics, config load, raw fetch of the target file; the
\* raw fetch is not issued before the allowance level is computed, the config
\* load attempted and the ref forced or validated; response bytes are written
\* only after Open returned a fully fetched and rendered file.
C18_StepOrder ==
    \A p \in Procs :
        LET r == req[p]
            n == Len(r.calls)
        IN  /\ \A i, j \in 1..n : i < j => Rank(r.calls[i]) <= Rank(r.calls[j])
            /\ n > 0 => r.calls[1] = Call("topics", r.owner, r.repo, "", "")
            /\ \A i, j \in 1..n : (i # j /\ Rank(r.calls[i]) = Rank(r.calls[j])) =>
                    Rank(r.calls[i]) = 1
            /\ TargetCall(p) # {} =>
                /\ r.fetched
                /\ r.calls[n] = Call("media", r.owner, r.repo, r.filepath, r.fetchRef)
                /\ Call("media", r.owner, r.repo, ConfigName, "gitea-pages") \in CallsOf(p)
                /\ r.forced \/ r.usedStore \/ r.allowedBranches = AllowedBranchesAll
                /\ r.forced => r.fetchRef = "gitea-pages"
            /\ r.wrote # <<>> =>
                /\ r.pc = "done" /\ r.served /\ r.fetched
                /\ r.wrote = r.content
            /\ (r.pc = "done" /\ r.served) => r.wrote = r.content

C18_Witness ==
    \E p \in Procs :
        /\ Done(p) /\ req[p].served /\ req[p].wrote # <<>>
        /\ req[p].filepath = "doc.md"
        /\ req[p].calls = <<Call("topics", "alice", "site", "", ""),
                            Call("media", "alice", "site", ConfigName, "gitea-pages"),
                            Call("media", "alice", "site", "doc.md", "main")>>

\* C19: a remote 404 on the raw fetch yields the not-found condition, any
\* other non-200 status a distinct error carrying the status code, a
\* transport failure an error; Open ends with the matching condition and
\* returns no file, and only a 200 response leads to a returned file.
C19_RawFetchErrors ==
    \A p \in Procs :
        LET r == req[p]
            resp == RemoteMedia(r.owner, r.repo, r.filepath, r.fetchRef)
        IN  r.fetched =>
              /\ resp.transport =>
                    (r.err = ErrTransport /\ ErrorKind(r.err) = "RemoteError")
              /\ (~resp.transport /\ resp.status = 404) =>
                    (r.err = ErrNotExist /\ ErrorKind(r.err) = "NotFound")
              /\ (~resp.transport /\ resp.status \notin {200, 404}) =>
                    /\ r.err = ErrUnexpectedStatus
                    /\ ErrorKind(r.err) = "RemoteError"
                    /\ r.errCode = resp.status
              /\ r.served => (~resp.transport /\ resp.status = 200 /\ r.err = ErrNil)
              /\ r.err # ErrNil => (~r.served /\ r.content = <<>> /\ r.name = "")

C19_Witness ==
    \E p \in Procs :
        /\ Done(p) /\ req[p].fetched
        /\ req[p].owner = "dave" /\ req[p].repo = "flaky"
        /\ req[p].err = ErrUnexpectedStatus /\ req[p].errCode = 403
        /\ ~req[p].served

ShellHead == "<!DOCTYPE html>\n<html>\n<body>\n<h1>"
ShellTail == "</body></html>"

\* C20: Markdown rendering is applied exactly when the normalized file path
\* ends in .md: the returned content is then the document shell with an <h1>
\* holding the front matter title (empty if absent) followed by the rendered
\* body, never empty, and a renderer failure ends the request with an error
\* and no file; for every other path the content is the fetched bytes.
C20_MarkdownExactlyMd ==
    \A p \in Procs :
        LET r == req[p]
            resp == RemoteMedia(r.owner, r.repo, r.filepath, r.fetchRef)
            fm == extractFrontMatter(resp.body)
        IN  (r.fetched /\ ~resp.transport /\ resp.status = 200) =>
              IF r.filepath \in {"doc.md", "bad.md", "empty.md"}
              THEN IF fm.err # ErrNil
                   THEN ~r.served /\ r.err = fm.err /\ r.content = <<>>
                   ELSE /\ r.served
                        /\ r.content # <<>>
                        /\ r.content = <<ShellHead, fm.title, "</h1>">>
                                         \o markdown(fm.body) \o <<ShellTail>>
                        /\ r.content # resp.body
              ELSE r.served /\ r.content = resp.body

C20_Witness ==
    \E p \in Procs :
        /\ Done(p) /\ req[p].served
        /\ req[p].filepath = "doc.md"
        /\ req[p].content = <<ShellHead, "Hi", "</h1>", "<p>", "# Hello", "</p>", ShellTail>>
        /\ req[p].wrote = req[p].content

====
